---- MODULE Spec2Model ----
(***************************************************************************)
(* Model of github.com/dsggregory/config (src/config.go): ReadConfig binds *)
(* the exported fields of a caller's struct to command-line flags, with    *)
(* environment variables as backup defaults.                               *)
(*                                                                         *)
(* Strings whose spelling matters (field names, tags, flag names, env      *)
(* names) are sequences of one-character strings, so that strcase.ToKebab  *)
(* and strcase.ToScreamingSnake are computed, not assumed.  Raw text read  *)
(* from the environment or the argument vector is an ordinary string and   *)
(* is parsed by the tables below.                                          *)
(***************************************************************************)
EXTENDS Integers, Sequences, FiniteSets, TLC

(***************************************************************************)
(* Bounds of the model.                                                    *)
(***************************************************************************)
\* the longest root struct the model draws (fields of the caller's struct)
MaxFields == 2
\* the longest argument vector (os.Args[1:]) the model draws
MaxArgs == 1
\* how many times ReadConfig is called against the same flag set
MaxLoads == 2

(***************************************************************************)
(* Naming engine: strcase.ToKebab / strcase.ToScreamingSnake, i.e.         *)
(* ToScreamingDelimited(s, delimiter, "", screaming), over the alphabet    *)
(* {A, B, a, b, -, _} (no digits, no blanks).                              *)
(***************************************************************************)
Caps == {"A", "B"}
Lows == {"a", "b"}

Lower(c) == CASE c = "A" -> "a" [] c = "B" -> "b" [] OTHER -> c

Upper(c) == CASE c = "a" -> "A" [] c = "b" -> "B" [] OTHER -> c

\* what the loop body of ToScreamingDelimited writes for byte i of s
DelimitedByte(s, i, delimiter, screaming) ==
    LET c == s[i]
        vIsCap == c \in Caps
        vIsLow == c \in Lows
        v == IF screaming THEN Upper(c) ELSE Lower(c)
        hasNext == i + 1 <= Len(s)
        nextIsCap == hasNext /\ s[i + 1] \in Caps
        nextIsLow == hasNext /\ s[i + 1] \in Lows
        prevIsCap == i > 1 /\ s[i - 1] \in Caps
    IN  IF (vIsCap /\ nextIsLow) \/ (vIsLow /\ nextIsCap)
        THEN (IF vIsCap /\ nextIsLow /\ prevIsCap THEN <<delimiter>> ELSE <<>>)
             \o <<v>>
             \o (IF vIsLow THEN <<delimiter>> ELSE <<>>)
        ELSE IF c \in {"_", "-"} THEN <<delimiter>> ELSE <<v>>

RECURSIVE DelimitedFrom(_, _, _, _)
DelimitedFrom(s, i, delimiter, screaming) ==
    IF i > Len(s) THEN <<>>
    ELSE DelimitedByte(s, i, delimiter, screaming)
         \o DelimitedFrom(s, i + 1, delimiter, screaming)

ToKebab(s) == DelimitedFrom(s, 1, "-", FALSE)

ToScreamingSnake(s) == DelimitedFrom(s, 1, "_", TRUE)

(***************************************************************************)
(* Values.  A Go value is carried with its dynamic type t (what a type     *)
(* switch on fValue.Interface() sees); n, s, b hold the number, the text   *)
(* or the truth value.  float64 and time.Duration are whole numbers here   *)
(* (a Duration counts seconds).                                            *)
(***************************************************************************)
NumV(t, n) == [t |-> t, n |-> n, s |-> "", b |-> FALSE]

StrV(s) == [t |-> "string", n |-> 0, s |-> s, b |-> FALSE]

BoolV(b) == [t |-> "bool", n |-> 0, s |-> "", b |-> b]

\* a nil pointer or a nil interface
NilV == [t |-> "nil", n |-> 0, s |-> "", b |-> FALSE]

\* a non-nil pointer; what it points to is the field's own fields
PtrV == [t |-> "ptr", n |-> 0, s |-> "", b |-> FALSE]

\* an inline struct
StructV == [t |-> "struct", n |-> 0, s |-> "", b |-> FALSE]

\* reflect.StructTag.Lookup: (value, ok)
NoTag == [ok |-> FALSE, v |-> <<>>]

Tag(v) == [ok |-> TRUE, v |-> v]

\* the types flagset has a registration call for (config.go, the type switch)
SupportedTypes == {"int", "int64", "float64", "string", "bool", "time.Duration"}

(***************************************************************************)
(* strconv / time parsers, as tables over the raw texts the model draws.   *)
(***************************************************************************)
Ok(v) == [ok |-> TRUE, v |-> v]

Fail == [ok |-> FALSE, v |-> NilV]

\* the base-10 integers among the raw texts
Digits(raw) == CASE raw = "1" -> 1 [] raw = "7" -> 7 [] OTHER -> -1

\* strings.ToUpper
ToUpper(raw) ==
    CASE raw = "true" -> "TRUE" [] raw = "false" -> "FALSE"
      [] raw = "1h" -> "1H" [] OTHER -> raw

\* time.ParseDuration: a number needs a unit
ParseDuration(raw) == IF raw = "1h" THEN Ok(NumV("time.Duration", 3600)) ELSE Fail

\* strconv.Atoi, strconv.ParseInt(s, 10, 64), strconv.ParseFloat(s, 64)
ParseNum(t, raw) == IF Digits(raw) >= 0 THEN Ok(NumV(t, Digits(raw))) ELSE Fail

\* strconv.ParseBool, used by the flag package for a bool flag
ParseBool(raw) ==
    CASE raw \in {"1", "true"} -> Ok(BoolV(TRUE))
      [] raw = "false" -> Ok(BoolV(FALSE))
      [] OTHER -> Fail

(***************************************************************************)
(* lookupEnv(envNm, defaultVal): the default when the variable is unset,   *)
(* else the variable parsed as the default's dynamic type.                 *)
(***************************************************************************)
\* os.LookupEnv on environment e (a function on EnvNames)
LookupEnv(e, envNm) ==
    IF envNm \in DOMAIN e THEN e[envNm] ELSE [ok |-> FALSE, v |-> ""]

NoErr == "nil"

lookupEnv(e, envNm, defaultVal) ==
    LET got == LookupEnv(e, envNm)
        res == got.v
        num == ParseNum(defaultVal.t, res)
        dur == ParseDuration(res)
    IN  IF ~got.ok THEN [err |-> NoErr, val |-> defaultVal]
        ELSE CASE defaultVal.t \in {"int", "int64", "float64"} ->
                    IF num.ok THEN [err |-> NoErr, val |-> num.v]
                    ELSE [err |-> "parse", val |-> NilV]
               [] defaultVal.t = "bool" ->
                    [err |-> NoErr, val |-> BoolV(ToUpper(res) \in {"TRUE", "1"})]
               [] defaultVal.t = "string" -> [err |-> NoErr, val |-> StrV(res)]
               [] defaultVal.t = "time.Duration" ->
                    IF dur.ok THEN [err |-> NoErr, val |-> dur.v]
                    ELSE [err |-> "parse", val |-> NilV]
               [] OTHER -> [err |-> "unsupported", val |-> NilV]

(***************************************************************************)
(* The caller's configuration value.  A field is                           *)
(*   [name, flag, env, type, val, fields]                                  *)
(* with flag/env its struct tags, type the declared type ("struct" an      *)
(* inline struct, "*struct" a pointer to a struct, "*int" a pointer to a   *)
(* non-struct), val its value and fields the fields of the struct it is or *)
(* points to.                                                              *)
(***************************************************************************)
Leaf(name, type, val, flag, env) ==
    [name |-> name, flag |-> flag, env |-> env, type |-> type, val |-> val,
     fields |-> <<>>]

Nest(name, type, val, flag, fields) ==
    [name |-> name, flag |-> flag, env |-> NoTag, type |-> type, val |-> val,
     fields |-> fields]

nA == <<"A">>
nB == <<"B">>
nAB == <<"A", "_", "B">>
nLow == <<"a">>
tagIgnore == <<"-">>
tagCamel == <<"a", "B">>

\* scalar fields the model draws: every supported type, the tags, an
\* unexported field, and types with no registration path
LeafFields ==
    { Leaf(nA, "int", NumV("int", 3), NoTag, NoTag),
      Leaf(nA, "string", StrV("John"), NoTag, Tag(nB)),
      Leaf(nA, "int32", NumV("int32", 3), NoTag, NoTag),
      Leaf(nA, "interface {}", NumV("int", 3), NoTag, NoTag),
      Leaf(nB, "bool", BoolV(FALSE), NoTag, NoTag),
      Leaf(nB, "bool", BoolV(TRUE), NoTag, Tag(tagIgnore)),
      Leaf(nB, "time.Duration", NumV("time.Duration", 5), NoTag, NoTag),
      Leaf(nB, "int", NumV("int", 3), Tag(tagCamel), NoTag),
      Leaf(nB, "int32", NumV("int32", 3), Tag(tagIgnore), NoTag),
      Leaf(nAB, "float64", NumV("float64", 2), NoTag, NoTag),
      Leaf(nAB, "int64", NumV("int64", 4), Tag(<<>>), NoTag),
      Leaf(nLow, "int", NumV("int", 3), NoTag, NoTag) }

inB == Leaf(nB, "int", NumV("int", 3), NoTag, NoTag)
inBad == Leaf(nB, "int32", NumV("int32", 3), NoTag, NoTag)
inA == Leaf(nA, "string", StrV("John"), Tag(<<"b", "a">>), NoTag)

\* nested fields the model draws: inline and pointer-held structs, with and
\* without flag tags, two levels deep, nil, and a pointer to a non-struct
NestedFields ==
    { Nest(nA, "struct", StructV, NoTag, <<inB>>),
      Nest(nA, "struct", StructV, Tag(tagCamel), <<inA, inB>>),
      Nest(nA, "struct", StructV, Tag(tagIgnore), <<inBad>>),
      Nest(nA, "*struct", NilV, NoTag, <<>>),
      Nest(nA, "*struct", PtrV, NoTag, <<inBad>>),
      Nest(nA, "*int", PtrV, NoTag, <<>>),
      Nest(nB, "*struct", PtrV, Tag(<<>>), <<inA, inB>>),
      Nest(nB, "struct", StructV, NoTag,
           <<Nest(nA, "struct", StructV, NoTag, <<inB>>), inB>>),
      Nest(nB, "struct", StructV, Tag(<<>>),
           <<Nest(nA, "*struct", PtrV, NoTag, <<inBad, inB>>)>>) }

TopFields == LeafFields \cup NestedFields

\* a Go struct declares each field name once
DistinctNames(fs) ==
    \A i, j \in 1..Len(fs) : i # j => fs[i].name # fs[j].name

RootStructs ==
    { fs \in UNION { [1..n -> TopFields] : n \in 1..MaxFields } : DistinctNames(fs) }

\* the argument of ReadConfig: a struct by value, a nil pointer, a pointer
\* to a non-struct, or a pointer to a struct
Arguments ==
    { [kind |-> k, fields |-> <<>>] : k \in {"struct", "nil", "*int"} }
    \cup { [kind |-> "*struct", fields |-> fs] : fs \in RootStructs }

(***************************************************************************)
(* The environment table and the argument vector.                          *)
(***************************************************************************)
EnvNames == {nA, nB, nAB}
RawEnv == {"1", "true", "1h"}

Unset == [ok |-> FALSE, v |-> ""]

\* nothing set, one variable set, or all of them set to the same text
Environments ==
    { [n \in EnvNames |-> Unset] }
    \cup { [n \in EnvNames |-> IF n \in S THEN [ok |-> TRUE, v |-> r] ELSE Unset] :
             S \in { {n} : n \in EnvNames } \cup {EnvNames}, r \in RawEnv }

ArgNames == { <<"a">>, <<"b">>, <<"a", "-", "b">> }
RawArg == {"7", "false"}

\* the elements os.Args[1:] is made of, each one -name=value
Args == [name : ArgNames, value : RawArg]

(***************************************************************************)
(* State.                                                                  *)
(***************************************************************************)
VARIABLES
    cfg,      \* the value handed to ReadConfig; its fields are written in place
    env,      \* the process environment
    args,     \* the part of os.Args[1:] flag.Parse has consumed
    formal,   \* flagset.formal: the registered flags, in registration order
    actual,   \* flagset.actual: the names of the flags set from the arguments
    stack,    \* the reflectStruct calls in progress: [path, i, pfx]
    pc,       \* "idle", "walk", "parse", "returned", "panic" or "exit"
    err,      \* the error ReadConfig returned, NoErr for nil
    trail,    \* the field names the error was wrapped with, innermost first
    looked,   \* the os.LookupEnv calls of this load: [path, name]
    pre,      \* the struct's fields as they were when ReadConfig was called
    loads     \* the number of ReadConfig calls so far

vars == <<cfg, env, args, formal, actual, stack, pc, err, trail, looked, pre, loads>>

\* the fields of the struct that `path` (field indices from the root) leads to
RECURSIVE FieldsAt(_, _)
FieldsAt(fields, path) ==
    IF path = <<>> THEN fields
    ELSE FieldsAt(fields[Head(path)].fields, Tail(path))

\* the field that the non-empty `path` leads to
FieldAt(fields, path) ==
    FieldsAt(fields, SubSeq(path, 1, Len(path) - 1))[path[Len(path)]]

\* *p = v for the field at `path`
RECURSIVE SetValAt(_, _, _)
SetValAt(fields, path, v) ==
    IF Len(path) = 1 THEN [fields EXCEPT ![path[1]].val = v]
    ELSE [fields EXCEPT ![Head(path)].fields = SetValAt(@, Tail(path), v)]

\* faulty variant: unexported fields are walked too
Exported_All(f) == TRUE

\* fValue.CanInterface() && fValue.CanSet(): the field is exported
Exported(f) == f.name[1] \in Caps

\* fValue.Kind()
Kind(f) ==
    CASE f.type \in {"*struct", "*int"} -> "ptr"
      [] f.type = "struct" -> "struct"
      [] OTHER -> f.type

\* faulty variant: the flag tag "-" is not honoured
Ignored_Never(f) == FALSE

\* the flag tag "-"
Ignored(f) == f.flag.v = tagIgnore

\* flagName: the prefix and the field name in kebab case, or the prefix in
\* kebab case and a non-empty flag tag as written
FlagName(pfx, f) ==
    IF f.flag.v # <<>> THEN ToKebab(pfx) \o f.flag.v
    ELSE ToKebab(pfx) \o ToKebab(f.name)

\* faulty variant: an empty flag tag does not flatten
ChildPrefix_NoFlatten(pfx, f) == FlagName(pfx, f) \o <<"-">>

\* fpfx: the prefix handed to the fields of a nested struct
ChildPrefix(pfx, f) ==
    IF f.flag.ok /\ f.flag.v = <<>> THEN <<>> ELSE FlagName(pfx, f) \o <<"-">>

\* envName: the env tag if there is one, else the flag name in screaming snake
EnvName(pfx, f) ==
    IF f.env.ok THEN f.env.v ELSE ToScreamingSnake(FlagName(pfx, f))

\* faulty variant: the env tag "-" is not honoured
EnvWanted_Always(f) == TRUE

\* envTag != "-": the environment is consulted
EnvWanted(f) == f.env.v # tagIgnore

\* faulty variant: the environment is never consulted
ResolveDefault_NoEnv(e, pfx, f) == [err |-> NoErr, val |-> f.val]

\* defaultVal after the env step: [err, val]
ResolveDefault(e, pfx, f) ==
    IF EnvWanted(f) THEN lookupEnv(e, EnvName(pfx, f), f.val)
    ELSE [err |-> NoErr, val |-> f.val]

\* faulty variant: the type switch has no default case
Registrable_Any(f) == TRUE

\* the type switch on field.Type.String() has a case for the field
Registrable(f) == f.type \in SupportedTypes

\* faulty variant: a flag set that lets a name be registered twice
Redefined_Never(fl, name) == FALSE

\* flagset.formal has the name (flag.FlagSet.Var panics on it)
Redefined(fl, name) == \E k \in 1..Len(fl) : fl[k].name = name

Top == stack[Len(stack)]
CurFields == FieldsAt(cfg.fields, Top.path)
CurField == CurFields[Top.i]
CurPath == Top.path \o <<Top.i>>
InLoop == pc = "walk" /\ Top.i <= Len(CurFields)
IsLeaf == InLoop /\ Exported(CurField) /\ ~Ignored(CurField)
          /\ Kind(CurField) \notin {"ptr", "struct"}

\* `continue`: on to the next field of the struct being walked
Continue == [stack EXCEPT ![Len(stack)].i = @ + 1]

\* the names of the nested fields being walked, innermost first
RECURSIVE Wrapping(_, _)
Wrapping(fields, path) ==
    IF path = <<>> THEN <<>>
    ELSE Wrapping(fields[Head(path)].fields, Tail(path)) \o <<fields[Head(path)].name>>

Init ==
    /\ cfg \in Arguments
    /\ env \in Environments
    /\ args = <<>>
    /\ formal = <<>>
    /\ actual = {}
    /\ stack = <<>>
    /\ pc = "idle"
    /\ err = NoErr
    /\ trail = <<>>
    /\ looked = <<>>
    /\ pre = cfg.fields
    /\ loads = 0

(***************************************************************************)
(* ReadConfig(cfg): readConfig's argument check, then reflectStruct on the *)
(* root with an empty prefix.  reflectStruct calls NumField on what the    *)
(* pointer points to, which panics unless that is a struct.                *)
(***************************************************************************)
ReadConfig ==
    /\ pc \in {"idle", "returned"}
    /\ loads < MaxLoads
    /\ loads' = loads + 1
    /\ pre' = cfg.fields
    /\ looked' = <<>>
    /\ trail' = <<>>
    /\ args' = <<>>
    /\ CASE cfg.kind \in {"struct", "nil"} ->
              /\ pc' = "returned"
              /\ err' = "invalid argument"
              /\ stack' = <<>>
         [] cfg.kind = "*int" ->
              /\ pc' = "panic"
              /\ err' = NoErr
              /\ stack' = <<>>
         [] OTHER ->
              /\ pc' = "walk"
              /\ err' = NoErr
              /\ stack' = <<[path |-> <<>>, i |-> 1, pfx |-> <<>>]>>
    /\ UNCHANGED <<cfg, env, formal, actual>>

(***************************************************************************)
(* reflectStruct, one field per step.                                      *)
(***************************************************************************)
\* an unexported field is passed over
SkipUnexported ==
    /\ InLoop
    /\ ~Exported(CurField)
    /\ stack' = Continue
    /\ UNCHANGED <<cfg, env, args, formal, actual, pc, err, trail, looked, pre, loads>>

\* a field tagged flag:"-" is passed over
SkipIgnored ==
    /\ InLoop
    /\ Exported(CurField)
    /\ Ignored(CurField)
    /\ stack' = Continue
    /\ UNCHANGED <<cfg, env, args, formal, actual, pc, err, trail, looked, pre, loads>>

\* a nil pointer, or a pointer to something that is not a struct, is passed over
SkipPointer ==
    /\ InLoop
    /\ Exported(CurField)
    /\ ~Ignored(CurField)
    /\ Kind(CurField) = "ptr"
    /\ CurField.val = NilV \/ CurField.type # "*struct"
    /\ stack' = Continue
    /\ UNCHANGED <<cfg, env, args, formal, actual, pc, err, trail, looked, pre, loads>>

\* a nested struct, inline or behind a non-nil pointer: reflectStruct on it
Descend ==
    /\ InLoop
    /\ Exported(CurField)
    /\ ~Ignored(CurField)
    /\ \/ Kind(CurField) = "struct"
       \/ Kind(CurField) = "ptr" /\ CurField.val # NilV /\ CurField.type = "*struct"
    /\ stack' = Append(stack, [path |-> CurPath, i |-> 1,
                               pfx |-> ChildPrefix(Top.pfx, CurField)])
    /\ UNCHANGED <<cfg, env, args, formal, actual, pc, err, trail, looked, pre, loads>>

\* faulty variant: the error of a nested struct is dropped and its parent goes on
Propagate_Inner(st) ==
    IF Len(st) > 1
    THEN [stack |-> [SubSeq(st, 1, Len(st) - 1) EXCEPT ![Len(st) - 1].i = @ + 1],
          pc |-> "walk"]
    ELSE [stack |-> <<>>, pc |-> "returned"]

\* `return err` in a reflectStruct, and `return fmt.Errorf("%w; ...", err)` in
\* each one that called it, up to ReadConfig: no call is left in progress
Propagate(st) == [stack |-> <<>>, pc |-> "returned"]

\* the os.LookupEnv call of a leaf, if it makes one
Lookups ==
    IF EnvWanted(CurField)
    THEN Append(looked, [path |-> CurPath, name |-> EnvName(Top.pfx, CurField)])
    ELSE looked

\* a leaf whose environment value does not parse, or whose type has no
\* registration call: every reflectStruct in progress returns the error.
\* (fValue.CanAddr() holds for every field that passed CanSet(), so the
\* "unable to address field" return is never taken.)
LeafError ==
    /\ IsLeaf
    /\ LET d == ResolveDefault(env, Top.pfx, CurField)
       IN  /\ d.err # NoErr \/ ~Registrable(CurField)
           /\ err' = IF d.err # NoErr THEN d.err ELSE "unsupported"
    /\ looked' = Lookups
    /\ trail' = Wrapping(cfg.fields, Top.path)
    /\ stack' = Propagate(stack).stack
    /\ pc' = Propagate(stack).pc
    /\ UNCHANGED <<cfg, env, args, formal, actual, pre, loads>>

\* a leaf is registered: flagset.XxxVar(&field, flagName, defaultVal, usage)
\* stores the default in the field and adds the flag
LeafRegister ==
    /\ IsLeaf
    /\ LET d == ResolveDefault(env, Top.pfx, CurField)
           name == FlagName(Top.pfx, CurField)
       IN  /\ d.err = NoErr
           /\ Registrable(CurField)
           /\ ~Redefined(formal, name)
           /\ cfg' = [cfg EXCEPT !.fields = SetValAt(@, CurPath, d.val)]
           /\ formal' = Append(formal, [name |-> name, path |-> CurPath,
                                        type |-> CurField.type, def |-> d.val])
    /\ looked' = Lookups
    /\ stack' = Continue
    /\ UNCHANGED <<env, args, actual, pc, err, trail, pre, loads>>

\* the flag set already has the name: flag.FlagSet.Var panics, after the
\* default was stored in the field
LeafRedefined ==
    /\ IsLeaf
    /\ LET d == ResolveDefault(env, Top.pfx, CurField)
       IN  /\ d.err = NoErr
           /\ Registrable(CurField)
           /\ Redefined(formal, FlagName(Top.pfx, CurField))
           /\ cfg' = [cfg EXCEPT !.fields = SetValAt(@, CurPath, d.val)]
    /\ looked' = Lookups
    /\ stack' = <<>>
    /\ pc' = "panic"
    /\ UNCHANGED <<env, args, formal, actual, err, trail, pre, loads>>

\* the end of a struct's fields: reflectStruct returns nil, to the caller's
\* loop or, from the root, to ReadConfig, which goes on to flag.Parse()
Return ==
    /\ pc = "walk"
    /\ Top.i > Len(CurFields)
    /\ IF Len(stack) = 1
       THEN stack' = <<>> /\ pc' = "parse"
       ELSE /\ stack' = [SubSeq(stack, 1, Len(stack) - 1)
                           EXCEPT ![Len(stack) - 1].i = @ + 1]
            /\ pc' = pc
    /\ UNCHANGED <<cfg, env, args, formal, actual, err, trail, looked, pre, loads>>

(***************************************************************************)
(* flag.Parse() on flag.CommandLine, whose error handling is ExitOnError.  *)
(***************************************************************************)
\* flag.Value.Set for a flag of type t
SetFlag(t, raw) ==
    CASE t \in {"int", "int64", "float64"} -> ParseNum(t, raw)
      [] t = "bool" -> ParseBool(raw)
      [] t = "string" -> Ok(StrV(raw))
      [] OTHER -> ParseDuration(raw)

\* the registered flags called `name`
Named(fl, name) == { k \in 1..Len(fl) : fl[k].name = name }

\* the next argument names a registered flag and its value parses: the
\* bound field is written
ParseArg ==
    /\ pc = "parse"
    /\ Len(args) < MaxArgs
    /\ \E a \in Args :
         /\ args' = Append(args, a)
         /\ \E k \in Named(formal, a.name) :
              LET got == SetFlag(formal[k].type, a.value)
              IN  /\ got.ok
                  /\ cfg' = [cfg EXCEPT !.fields = SetValAt(@, formal[k].path, got.v)]
                  /\ actual' = actual \cup {a.name}
    /\ UNCHANGED <<env, formal, stack, pc, err, trail, looked, pre, loads>>

\* the next argument names no registered flag, or its value does not parse:
\* the process exits with status 2
ParseExit ==
    /\ pc = "parse"
    /\ Len(args) < MaxArgs
    /\ \E a \in Args :
         /\ args' = Append(args, a)
         /\ \A k \in Named(formal, a.name) : ~SetFlag(formal[k].type, a.value).ok
    /\ pc' = "exit"
    /\ UNCHANGED <<cfg, env, formal, actual, stack, err, trail, looked, pre, loads>>

\* the arguments are used up: ReadConfig returns nil
ParseEnd ==
    /\ pc = "parse"
    /\ pc' = "returned"
    /\ err' = NoErr
    /\ UNCHANGED <<cfg, env, args, formal, actual, stack, trail, looked, pre, loads>>

Next ==
    \/ ReadConfig
    \/ SkipUnexported
    \/ SkipIgnored
    \/ SkipPointer
    \/ Descend
    \/ LeafError
    \/ LeafRegister
    \/ LeafRedefined
    \/ Return
    \/ ParseArg
    \/ ParseExit
    \/ ParseEnd

Spec == Init /\ [][Next]_vars

(***************************************************************************)
(* What the properties below speak of, stated on the struct itself and not *)
(* through the walk.                                                       *)
(***************************************************************************)
\* every field of the struct graph, as the field indices leading to it
RECURSIVE Paths(_)
Paths(fields) ==
    UNION { {<<i>>} \cup { <<i>> \o q : q \in Paths(fields[i].fields) } :
            i \in 1..Len(fields) }

Parent(p) == SubSeq(p, 1, Len(p) - 1)

\* p is q or lies beneath q
Beneath(p, q) == Len(q) <= Len(p) /\ SubSeq(p, 1, Len(q)) = q

\* p comes before q in depth-first declaration order
Before(p, q) ==
    \E n \in 1..Len(q) :
        /\ \A m \in 1..(n - 1) : m <= Len(p) /\ p[m] = q[m]
        /\ \/ Len(p) = n - 1
           \/ Len(p) >= n /\ p[n] < q[n]

Visible(f) == f.name[1] \in {"A", "B"}

Dropped(f) == f.flag = Tag(<<"-">>)

\* a nested struct the walk enters
Opens(f) == f.type = "struct" \/ (f.type = "*struct" /\ f.val = PtrV)

\* every field above p is visible, not dropped, and entered
Reached(fields, p) ==
    \A n \in 1..(Len(p) - 1) :
        LET a == FieldAt(fields, SubSeq(p, 1, n))
        IN  Visible(a) /\ ~Dropped(a) /\ Opens(a)

\* the fields the walk comes to and does not pass over
Traversed(fields) ==
    { p \in Paths(fields) :
        Reached(fields, p) /\ Visible(FieldAt(fields, p)) /\ ~Dropped(FieldAt(fields, p)) }

Scalar(f) == f.type \in {"int", "int64", "float64", "string", "bool", "time.Duration"}

\* the leaves that are to get a flag
Eligible(fields) == { p \in Traversed(fields) : Scalar(FieldAt(fields, p)) }

\* a field's own part of its flag name: its flag tag, else its name in kebab case
Suffix(f) == IF f.flag.ok /\ f.flag.v # <<>> THEN f.flag.v ELSE ToKebab(f.name)

\* the flag name of the field at p: the prefix its parent hands down, in
\* kebab case, then its own part
RECURSIVE QualifiedName(_, _)
QualifiedName(fields, p) ==
    LET up == FieldAt(fields, Parent(p))
        prefix == IF Len(p) = 1 \/ up.flag = Tag(<<>>) THEN <<>>
                  ELSE QualifiedName(fields, Parent(p)) \o <<"-">>
    IN  ToKebab(prefix) \o Suffix(FieldAt(fields, p))

\* the same with the prefix used as it is
RECURSIVE PlainName(_, _)
PlainName(fields, p) ==
    LET up == FieldAt(fields, Parent(p))
        prefix == IF Len(p) = 1 \/ up.flag = Tag(<<>>) THEN <<>>
                  ELSE PlainName(fields, Parent(p)) \o <<"-">>
    IN  prefix \o Suffix(FieldAt(fields, p))

\* the environment variable of the field at p
Variable(fields, p) ==
    IF FieldAt(fields, p).env.ok THEN FieldAt(fields, p).env.v
    ELSE ToScreamingSnake(QualifiedName(fields, p))

\* the variable is set
IsSet(name) == name \in DOMAIN env /\ env[name].ok

\* a raw environment text as a value of type t; ok is FALSE if it is no such value
AsType(t, raw) ==
    CASE t \in {"int", "int64", "float64"} ->
            IF raw \in {"1", "7"} THEN Ok(NumV(t, IF raw = "1" THEN 1 ELSE 7)) ELSE Fail
      [] t = "bool" -> Ok(BoolV(raw \in {"1", "true", "TRUE"}))
      [] t = "string" -> Ok(StrV(raw))
      [] t = "time.Duration" ->
            IF raw = "1h" THEN Ok(NumV(t, 3600)) ELSE Fail
      [] OTHER -> Fail

\* the last value the argument vector gives for the flag
RECURSIVE LastArg(_, _)
LastArg(as, name) ==
    IF as[Len(as)].name = name THEN as[Len(as)].value
    ELSE LastArg(SubSeq(as, 1, Len(as) - 1), name)

Supplied(name) == \E j \in 1..Len(args) : args[j].name = name

\* ReadConfig returned nil
Succeeded == pc = "returned" /\ err = NoErr

(***************************************************************************)
(* C1. Precedence: after a successful ReadConfig every bound field holds   *)
(* the value given for its flag on the command line; else, if the          *)
(* environment is consulted for it and its variable is set, that variable  *)
(* parsed as the field's type; else the value it had before the call.      *)
(***************************************************************************)
C1_Resolved(k) ==
    LET p == formal[k].path
        f == FieldAt(pre, p)
        name == formal[k].name
        var == Variable(pre, p)
    IN  IF Supplied(name)
        THEN SetFlag(f.type, LastArg(args, name)).v
        ELSE IF f.env.v # <<"-">> /\ IsSet(var)
             THEN AsType(f.type, env[var].v).v
             ELSE f.val

\* C1: every bound field holds its resolved value once ReadConfig has succeeded
C1_Precedence ==
    Succeeded =>
        \A k \in 1..Len(formal) :
            FieldAt(cfg.fields, formal[k].path).val = C1_Resolved(k)

\* a successful load in which one flag was supplied and another field took
\* its value from the environment
C1_Witness ==
    /\ Succeeded
    /\ \E k1, k2 \in 1..Len(formal) :
         /\ Supplied(formal[k1].name)
         /\ FieldAt(cfg.fields, formal[k1].path).val # FieldAt(pre, formal[k1].path).val
         /\ ~Supplied(formal[k2].name)
         /\ IsSet(Variable(pre, formal[k2].path))
         /\ FieldAt(cfg.fields, formal[k2].path).val # FieldAt(pre, formal[k2].path).val

\* reflectStruct on the root returned nil
WalkDone == pc = "parse" \/ Succeeded

\* the walk stands at a field it does not pass over as unexported
AtField == pc = "walk" /\ Top.i <= Len(CurFields) /\ Visible(CurField)

\* the walk went on to the next field and did nothing else
PassedOver ==
    /\ pc' = "walk"
    /\ stack' = [stack EXCEPT ![Len(stack)].i = @ + 1]
    /\ UNCHANGED <<cfg, formal, looked, err, actual>>

(***************************************************************************)
(* C2. A scalar field tagged env:"-" is left out of the environment lookup *)
(* only: no variable is looked up for it, whatever is set; it is           *)
(* registered under its flag name with the value it had before the call as *)
(* default; and a value on the command line still overwrites it.           *)
(***************************************************************************)
C2_EnvIgnored ==
    \A p \in Paths(pre) :
        LET f == FieldAt(pre, p)
            name == QualifiedName(pre, p)
        IN  (Scalar(f) /\ f.env = Tag(<<"-">>)) =>
              /\ \A j \in 1..Len(looked) : looked[j].path # p
              /\ loads = 1 =>
                  /\ \A k \in 1..Len(formal) :
                        formal[k].path = p =>
                            formal[k].name = name /\ formal[k].def = f.val
                  /\ (WalkDone /\ p \in Eligible(pre)) =>
                        /\ \E k \in 1..Len(formal) : formal[k].path = p
                        /\ FieldAt(cfg.fields, p).val =
                              IF Supplied(name)
                              THEN SetFlag(f.type, LastArg(args, name)).v
                              ELSE f.val

\* an env:"-" field was registered while the variable of its name was set,
\* and the command line then overwrote it
C2_Witness ==
    /\ Succeeded
    /\ \E k \in 1..Len(formal) :
         LET f == FieldAt(pre, formal[k].path)
         IN  /\ f.env = Tag(<<"-">>)
             /\ IsSet(ToScreamingSnake(formal[k].name))
             /\ Supplied(formal[k].name)
             /\ FieldAt(cfg.fields, formal[k].path).val # f.val

(***************************************************************************)
(* C3. A field tagged flag:"-", of whatever type, is left out altogether:  *)
(* no flag is registered and no variable looked up for it or for anything  *)
(* beneath it, it and everything beneath it keep their values, and the     *)
(* walk passes over it without an error.                                   *)
(***************************************************************************)
C3_Frame ==
    \A p \in Paths(pre) :
        Dropped(FieldAt(pre, p)) =>
            /\ FieldAt(cfg.fields, p) = FieldAt(pre, p)
            /\ \A k \in 1..Len(formal) : ~Beneath(formal[k].path, p)
            /\ \A j \in 1..Len(looked) : ~Beneath(looked[j].path, p)

C3_Step == (AtField /\ Dropped(CurField)) => PassedOver

\* C3: an ignored field is never touched, and the walk just passes over it
C3_Ignored == []C3_Frame /\ [][C3_Step]_vars

\* a load succeeded over an ignored field of a type with no registration
\* path, with the variable of its name set
C3_Witness ==
    /\ Succeeded
    /\ loads = 1
    /\ \E i \in 1..Len(pre) :
         /\ Dropped(pre[i])
         /\ pre[i].type = "int32"
         /\ IsSet(ToScreamingSnake(ToKebab(pre[i].name)))
    /\ \E i \in 1..Len(pre) : Dropped(pre[i]) /\ pre[i].type = "struct"

(***************************************************************************)
(* C4. As claimed: every exported field of an unsupported type that is not *)
(* tagged flag:"-" makes the walk return an unsupported-type error and     *)
(* gets no flag, whatever its value and whatever the environment holds.    *)
(***************************************************************************)
C4_Original ==
    [][(AtField /\ ~Dropped(CurField)
          /\ CurField.type \in {"int32", "interface {}", "*int", "*struct"})
       => (pc' = "returned" /\ err' = "unsupported" /\ formal' = formal)]_vars

\* an interface field holding a number, whose variable is set to a text
\* that is no number
C4_ParseFirst(f, var) ==
    /\ f.type = "interface {}"
    /\ f.env.v # <<"-">>
    /\ IsSet(var)
    /\ ~AsType(f.val.t, env[var].v).ok

(***************************************************************************)
(* C4, amended. A field of an unsupported type that is neither a struct    *)
(* nor a pointer makes the walk return an error and gets no flag: the      *)
(* unsupported-type error, or the environment parse error when it is an    *)
(* interface holding a number whose variable does not parse.  A pointer    *)
(* never fails by itself: nil, or pointing to a non-struct, it is passed   *)
(* over; pointing to a struct, it is walked.                               *)
(***************************************************************************)
C4_Unsupported ==
    [][(AtField /\ ~Dropped(CurField)) =>
         /\ CurField.type \in {"int32", "interface {}"} =>
              /\ pc' = "returned"
              /\ formal' = formal
              /\ cfg' = cfg
              /\ err' = IF C4_ParseFirst(CurField, Variable(cfg.fields, CurPath))
                        THEN "parse" ELSE "unsupported"
         /\ (CurField.type = "*int" \/ (CurField.type = "*struct" /\ CurField.val = NilV))
              => PassedOver
         /\ (CurField.type = "*struct" /\ CurField.val = PtrV) =>
              /\ pc' = "walk"
              /\ err' = err
              /\ Len(stack') = Len(stack) + 1
              /\ stack'[Len(stack')].path = CurPath]_vars

\* the walk failed on a first field of type int32 whose variable is set
C4_Witness ==
    /\ pc = "returned"
    /\ err = "unsupported"
    /\ loads = 1
    /\ formal = <<>>
    /\ pre[1].type = "int32"
    /\ ~Dropped(pre[1])
    /\ IsSet(Variable(pre, <<1>>))

\* the paths of the registered flags
Bound == { formal[k].path : k \in 1..Len(formal) }

(***************************************************************************)
(* C5. As claimed: the flag name of a leaf is the prefix its parent hands  *)
(* down (the parent's own flag name and "-", or nothing under an explicit  *)
(* empty flag tag) followed by the leaf's own part.                        *)
(***************************************************************************)
C5_Original ==
    \A k \in 1..Len(formal) :
        formal[k].name = PlainName(cfg.fields, formal[k].path)

(***************************************************************************)
(* C5, amended. The prefix handed to a nested struct's fields is the       *)
(* nested field's own flag name and "-", or nothing under an explicit      *)
(* empty flag tag; the flag name of a leaf is that prefix converted to     *)
(* kebab case, followed by the leaf's own part.                            *)
(***************************************************************************)
C5_Prefix ==
    /\ \A k \in 1..Len(formal) :
          formal[k].name = QualifiedName(cfg.fields, formal[k].path)
    /\ \A n \in 2..Len(stack) :
          stack[n].pfx =
             IF FieldAt(cfg.fields, stack[n].path).flag = Tag(<<>>) THEN <<>>
             ELSE QualifiedName(cfg.fields, stack[n].path) \o <<"-">>

\* flags were registered beneath a nested field with a flag tag that is not
\* in kebab case and beneath one with an empty flag tag
C5_Witness ==
    /\ Succeeded
    /\ \E k \in 1..Len(formal) :
         /\ Len(formal[k].path) = 2
         /\ FieldAt(cfg.fields, Parent(formal[k].path)).flag = Tag(<<"a", "B">>)
    /\ \E k \in 1..Len(formal) :
         /\ Len(formal[k].path) = 2
         /\ FieldAt(cfg.fields, Parent(formal[k].path)).flag = Tag(<<>>)

(***************************************************************************)
(* C6. After a successful walk over a fresh flag set the registered flags  *)
(* are exactly the eligible leaves, one flag each, each found under its    *)
(* computed name; unexported fields, ignored fields and nil pointers give  *)
(* no flag and no error.                                                   *)
(***************************************************************************)
C6_RoundTrip ==
    (WalkDone /\ loads = 1) =>
        /\ Bound = Eligible(pre)
        /\ Len(formal) = Cardinality(Eligible(pre))
        /\ \A p \in Eligible(pre) :
              \E k \in 1..Len(formal) :
                  /\ formal[k].path = p
                  /\ \A m \in 1..Len(formal) :
                        formal[m].name = QualifiedName(pre, p) <=> m = k

\* a walk succeeded and registered two flags over a struct with a nil pointer
C6_Witness ==
    /\ Succeeded
    /\ loads = 1
    /\ Len(formal) = 2
    /\ \E i \in 1..Len(pre) : pre[i].type = "*struct" /\ pre[i].val = NilV

\* no nested field carries an explicitly empty flag tag
NoFlatten(fields) ==
    \A p \in Paths(fields) :
        FieldAt(fields, p).type \in {"struct", "*struct"} =>
            FieldAt(fields, p).flag # Tag(<<>>)

C8_Claim ==
    (loads >= 1 /\ cfg.kind # "*struct") =>
        /\ pc = "returned"
        /\ err = "invalid argument"
        /\ formal = <<>>
        /\ looked = <<>>
        /\ args = <<>>

\* the environment gives the field a default without a parse error
C9_Resolves(f, var) ==
    ~(f.env.v # <<"-">> /\ IsSet(var) /\ ~AsType(f.type, env[var].v).ok)

(***************************************************************************)
(* C9. As claimed: when a load comes to a leaf whose flag name is already  *)
(* registered, by an earlier load or by an earlier field, ReadConfig       *)
(* returns a duplicate-flag error.                                         *)
(***************************************************************************)
C9_Claim ==
    [][(/\ AtField /\ ~Dropped(CurField) /\ Scalar(CurField)
        /\ C9_Resolves(CurField, Variable(cfg.fields, CurPath))
        /\ \E k \in 1..Len(formal) :
              formal[k].name = QualifiedName(cfg.fields, CurPath))
       => (pc' = "returned" /\ err' = "duplicate flag")]_vars

\* the traversed fields that are neither structs nor pointers
Leaves(fields) ==
    { p \in Traversed(fields) :
        FieldAt(fields, p).type \notin {"struct", "*struct", "*int"} }

\* the environment text of the field does not parse as what the field holds
Unparsable(fields, p) ==
    LET f == FieldAt(fields, p)
    IN  /\ f.val.t \in {"int", "int64", "float64", "time.Duration"}
        /\ f.env.v # <<"-">>
        /\ IsSet(Variable(fields, p))
        /\ ~AsType(f.val.t, env[Variable(fields, p)].v).ok

\* the leaves that cannot be registered
Failing(fields) ==
    { p \in Leaves(fields) : ~Scalar(FieldAt(fields, p)) \/ Unparsable(fields, p) }

\* p is q or comes after it in depth-first declaration order
NotBefore(p, q) == p = q \/ Before(q, p)

(***************************************************************************)
(* C10. Fail-fast without rollback: fields are handled in depth-first      *)
(* declaration order; the first leaf that fails, at any depth, ends the    *)
(* walk with its error; the leaves before it stay registered; nothing from *)
(* it onwards is registered or written, nothing after it is looked up, and *)
(* the argument vector is not parsed.                                      *)
(***************************************************************************)
C10_FailFast ==
    (loads = 1 /\ cfg.kind = "*struct") =>
        /\ \A k, m \in 1..Len(formal) :
              k < m => Before(formal[k].path, formal[m].path)
        /\ WalkDone => Failing(pre) = {}
        /\ (pc = "returned" /\ err # NoErr) =>
              \E fp \in Failing(pre) :
                  /\ \A q \in Failing(pre) : NotBefore(q, fp)
                  /\ err = IF Unparsable(pre, fp) THEN "parse" ELSE "unsupported"
                  /\ Len(trail) = Len(fp) - 1
                  /\ \A n \in 1..Len(trail) :
                        trail[n] = FieldAt(pre, SubSeq(fp, 1, Len(fp) - n)).name
                  /\ Bound = { p \in Eligible(pre) : Before(p, fp) }
                  /\ \A j \in 1..Len(looked) : ~Before(fp, looked[j].path)
                  /\ \A q \in Paths(pre) :
                        NotBefore(q, fp) => FieldAt(cfg.fields, q) = FieldAt(pre, q)
                  /\ args = <<>>
                  /\ actual = {}

\* a walk failed two levels down, after registering a leaf and before
\* coming to another
C10_Witness ==
    /\ pc = "returned"
    /\ err = "unsupported"
    /\ loads = 1
    /\ Len(trail) = 2
    /\ Len(formal) >= 1
    /\ \E q \in Eligible(pre) : q \notin Bound

====
